---- MODULE Spec2Model ----
(***************************************************************************)
(* A model of the two-player UNO simulation: the deck (src/cards.py), the  *)
(* turn engine (src/turn.py) and the game loop (src/game.py).              *)
(*                                                                         *)
(* The deck is built by the code's build rule over a reduced card set (the *)
(* bounds below); a game is played with one of two reduced decks: a deck   *)
(* of two colours without wild cards, and a deck of one colour with the    *)
(* wild cards.  random.shuffle followed by pops from the end of the        *)
(* list is modelled lazily: while deck.shuffled holds, the order of        *)
(* deck.cards has not been observed and a pop may yield any of its cards;  *)
(* after the discard pile has been recycled the order is the discard       *)
(* order and a pop yields the last element.                                *)
(*                                                                         *)
(* turn_no is kept modulo 2: the loop reads it only through turn_no % 2    *)
(* (src/game.py:69,74).                                                    *)
(*                                                                         *)
(* The agent (src/agents.py) and its state space and rewards               *)
(* (src/state_action_reward.py) are modelled over a reduced list of card   *)
(* types.  Spec is one game, in which the choice of the card to play is    *)
(* any playable card; AgentSpec is one tournament, in which the games are  *)
(* the calls they make on the agent, with any state and any feasibility    *)
(* dictionary.  Table values are exact fixed-point numbers.                *)
(*                                                                         *)
(* class Player (src/players.py) is not part of the sources at hand; its   *)
(* operations are modelled from the specification's data model: a hand is  *)
(* an unordered multiset of immutable cards, a play removes the card from  *)
(* the hand, discards it and records it as the player's played card.       *)
(***************************************************************************)
EXTENDS Integers, Sequences, FiniteSets, TLC

\* ---------------------------------------------------------------- bounds
\* highest numeric value besides 0 (9 in src/cards.py:104)
MaxNum == 0
\* copies of every 1..9 card (2 in src/cards.py:104)
NormalCopies == 1
\* copies of every action card (2 in src/cards.py:105)
ActionCopies == 1
\* cards dealt to each player (7 in src/turn.py:42)
HandSize == 2
\* the plain deck: its number of colours (4 in src/cards.py:100) and its
\* copies of every wild card
NumColorsPlain == 2
WildCopiesPlain == 0
\* the wild deck: its number of colours, and its copies of every wild card
\* (src/cards.py:106)
NumColorsWild == 1
WildCopiesWild == 4

\* the reduced state space of the agent: the number of open-card colours
\* (4 in src/state_action_reward.py:33), of normal colours (4, line 15), of
\* special types (3, line 16) and of wild types (2, line 17)
NumStateColors == 1
NumNorm == 1
NumSpec == 1
NumWild == 1
\* the tournament: its number of games (iterations in src/game.py:150) and
\* the largest number of agent plays in one game
MaxGames == 2
MaxPlays == 2
\* the learning rate agent_info["step_size"] is 1 / StepDen
StepDen == 2

\* the reduced decks a game is played with
DeckBounds ==
    {[colors |-> NumColorsPlain, wild |-> WildCopiesPlain],
     [colors |-> NumColorsWild, wild |-> WildCopiesWild]}

\* ------------------------------------------------------------ card model
Card(c, v) == [color |-> c, value |-> v]

\* the value a player's card_play has before the first play
NoCard == Card("NONE", "NONE")

AllColors == <<"RED", "GRE", "BLU", "YEL">>
colors(b) == SubSeq(AllColors, 1, b.colors)

\* the values 0..9 of range(0, 10), as strings
NumStr == <<"0", "1", "2", "3", "4", "5", "6", "7", "8", "9">>
\* a range that takes the skip card for a number
NumericValuesWide == {NumStr[i] : i \in 1..10} \cup {"SKI"}

NumericValues == {NumStr[i] : i \in 1..10}

ActionValues == <<"SKI", "REV", "PL2">>
WildValues == <<"COL", "PL4">>

\* an evaluation without the wild markers
evaluate_cardNoWild(card, open_c, open_v) ==
    \/ card.color = open_c
    \/ card.value = open_v

evaluate_card(card, open_c, open_v) ==
    \/ card.color = open_c
    \/ card.value = open_v
    \/ card.value \in {"COL", "PL4"}

\* ------------------------------------------------------------ Deck.build
RECURSIVE Repeat(_, _)
Repeat(s, n) == IF n = 0 THEN <<>> ELSE s \o Repeat(s, n - 1)

\* [Card(c, v) for c in colors for v in vals]
Product(b, vals) ==
    [k \in 1..(b.colors * Len(vals)) |->
        Card(colors(b)[((k - 1) \div Len(vals)) + 1], vals[((k - 1) % Len(vals)) + 1])]

cards_zero(b) == [k \in 1..b.colors |-> Card(colors(b)[k], "0")]
cards_normal(b) == Repeat(Product(b, SubSeq(NumStr, 2, MaxNum + 1)), NormalCopies)
cards_action(b) == Repeat(Product(b, ActionValues), ActionCopies)
cards_wild(b) == Repeat([k \in 1..2 |-> Card("WILD", WildValues[k])], b.wild)

build(b) == cards_normal(b) \o cards_action(b) \o cards_zero(b) \o cards_wild(b)

\* every card of the reduced decks
CardSet == UNION {{build(b)[k] : k \in 1..Len(build(b))} : b \in DeckBounds}

\* ------------------------------------------------------------- hands
Players == {1, 2}
Other(p) == 3 - p

EmptyHand == [c \in CardSet |-> 0]
HandAdd(h, c) == [h EXCEPT ![c] = @ + 1]
HandRemove(h, c) == [h EXCEPT ![c] = @ - 1]

RECURSIVE SumOver(_, _)
SumOver(S, h) ==
    IF S = {} THEN 0
    ELSE LET c == CHOOSE x \in S : TRUE IN h[c] + SumOver(S \ {c}, h)

HandLen(h) == SumOver(CardSet, h)

check_win(h) == HandLen(h) = 0

\* Player.evaluate_hand: the playable subset against the open card
hand_play(h, open) ==
    {c \in CardSet : h[c] > 0 /\ evaluate_card(c, open.color, open.value)}

\* --------------------------------------------------------- Deck.draw_from_deck
RemoveAt(s, i) == SubSeq(s, 1, i - 1) \o SubSeq(s, i + 1, Len(s))

FirstIndex(s, c) == CHOOSE i \in 1..Len(s) : s[i] = c /\ \A j \in 1..(i - 1) : s[j] # c

\* a recycling step that reshuffles the new draw pile
RecycleShuffled(d) ==
    IF Len(d.cards) = 0
    THEN [cards |-> d.cards_disc, cards_disc |-> <<>>, shuffled |-> TRUE]
    ELSE d

\* the deck after the recycling step of a draw
Recycle(d) ==
    IF Len(d.cards) = 0
    THEN [cards |-> d.cards_disc, cards_disc |-> <<>>, shuffled |-> FALSE]
    ELSE d

\* the outcomes of self.cards.pop(): none when the list is empty
Pop(d) ==
    IF Len(d.cards) = 0 THEN {}
    ELSE IF d.shuffled
    THEN {[card |-> c, deck |-> [d EXCEPT !.cards = RemoveAt(@, FirstIndex(@, c))]] :
            c \in {d.cards[i] : i \in 1..Len(d.cards)}}
    ELSE {[card |-> d.cards[Len(d.cards)],
           deck |-> [d EXCEPT !.cards = SubSeq(@, 1, Len(@) - 1)]]}

draw_from_deck(d) == Pop(Recycle(d))

discard(d, card) == [d EXCEPT !.cards_disc = Append(@, card)]

\* ------------------------------------------- states, actions, rewards
\* the ceilings of the reduced state space: the first NumNorm colours, the
\* first NumSpec special types, the first NumWild wild types
norm_cards == [k \in 1..NumNorm |-> 2]
spec_cards == [k \in 1..NumSpec |-> 1]
wild_cards == [k \in 1..NumWild |-> 1]
norm_cards_play == [k \in 1..NumNorm |-> 1]
spec_cards_play == [k \in 1..NumSpec |-> 1]

\* states_dict.values(), in the dictionary's order
states_dict == norm_cards \o spec_cards \o wild_cards \o norm_cards_play \o spec_cards_play

\* the number of held-count components: 9 in the code, where it is the end
\* of the slice [1:10] and the distance from a held count to its playable
\* count in the filter
NumHeld == NumNorm + NumSpec + NumWild

\* the lists handed to itertools.product: the colours, then range(0, val + 1)
\* for every value of states_dict
state_lists ==
    <<{AllColors[k] : k \in 1..NumStateColors}>> \o
    [k \in 1..Len(states_dict) |-> 0..states_dict[k]]

\* itertools.product(*lists)
RECURSIVE product(_)
product(lists) ==
    IF lists = <<>> THEN {<<>>}
    ELSE {<<x>> \o t : x \in Head(lists), t \in product(Tail(lists))}

\* a generator without the filter
states_filterNone(s) == TRUE

\* the filter of states(): states[i][k] >= states[i][k + 9] for the types
\* with a playable component (index k of the code is position k + 1 here)
states_filter(s) ==
    \A k \in 1..(NumNorm + NumSpec) : s[k + 1] >= s[k + 1 + NumHeld]

\* states()
states_all == {s \in product(state_lists) : states_filter(s)}

\* actions(): the labels of the reduced types, in the code's order
actions_all ==
    SubSeq(AllColors, 1, NumNorm) \o SubSeq(ActionValues, 1, NumSpec) \o
    SubSeq(<<"PL4", "COL">>, 1, NumWild)

Actions == {actions_all[k] : k \in 1..Len(actions_all)}

RECURSIVE sum(_)
sum(t) == IF t = <<>> THEN 0 ELSE Head(t) + sum(Tail(t))

min(a, b) == IF a <= b THEN a ELSE b

\* a sum that leaves out the first held count
states_tShort(s) == min(sum(SubSeq(s, 3, NumHeld + 1)), 1)

\* states_t[i] = min(sum(states[i][1:10]), 1)
states_t(s) == min(sum(SubSeq(s, 2, NumHeld + 1)), 1)

\* rewards(states, actions): the entry R.loc[s, a]
R(s, a) == IF states_t(s) = 0 THEN 1 ELSE 0

\* the cards of hand h that count for a type: a normal colour counts the
\* numbered cards of that colour, a special or wild type the cards of that value
cards_of_colour(col) == {c \in CardSet : c.color = col /\ c.value \in NumericValues}
cards_of_value(v) == {c \in CardSet : c.value = v}

\* held counts that cover the normal colours alone
held_countsNormOnly(h) ==
    [k \in 1..Len(AllColors) |-> min(SumOver(cards_of_colour(AllColors[k]), h), 2)] \o
    [k \in 1..Len(ActionValues) |-> 0] \o
    [k \in 1..Len(WildValues) |-> 0]

\* Player.identify_state: the held-count components of the state of hand h,
\* each count cut at the ceiling of its type (2 for a normal colour, 1 for a
\* special or wild type), over all the types of the full state space
held_counts(h) ==
    [k \in 1..Len(AllColors) |-> min(SumOver(cards_of_colour(AllColors[k]), h), 2)] \o
    [k \in 1..Len(ActionValues) |-> min(SumOver(cards_of_value(ActionValues[k]), h), 1)] \o
    [k \in 1..Len(WildValues) |-> min(SumOver(cards_of_value(WildValues[k]), h), 1)]

\* the reward the final update of a game reads: R.loc[state, action] for the
\* state identified from player 1's hand h; the entry is the same for every
\* action and depends on the held counts alone
final_reward(h) == IF min(sum(held_counts(h)), 1) = 0 THEN 1 ELSE 0

\* ------------------------------------------------------------- state
VARIABLES
    deck,           \* Deck: cards, cards_disc (and whether cards is still in shuffled order)
    hand,           \* Player.hand of player 1 and 2
    card_play,      \* Player.card_play of player 1 and 2
    card_open,      \* Turn.card_open
    count,          \* Turn.count
    penalty,        \* the penalty argument of the running action_plus (0: none)
    i,              \* the loop index of the running for loop (deal, penalty draws)
    turn_no,        \* Game.turn_no modulo 2
    winner,         \* Game.winner (0: none)
    starting_name,  \* the starting player handed to Game
    player_act,     \* the game loop's player_act (its player_pas is the other player)
    loop_card_open, \* the game loop's local card_open
    pc,             \* the position of the program
    drew,           \* history: cards drawn by each player in the current turn
    played,         \* history: cards played by each player in the current turn
    last_played,    \* history: the card played most recently
    forced,         \* history: the current turn began with a forced draw
    built           \* history: the number of cards Deck.build created

\* the agent and the tournament that drives it
VARIABLES
    algorithm,      \* the tournament's algorithm: "q-learning" or "monte-carlo"
    q,              \* Agent.q, in units of 1 / One
    visit,          \* Agent.visit
    agent_R,        \* Agent.R, the reward table
    prev_state,     \* QLearningAgent.prev_state (NoState: the initial 0)
    prev_action,    \* QLearningAgent.prev_action (NoAction: the initial 0)
    state_seen,     \* MonteCarloAgent.state_seen
    action_seen,    \* MonteCarloAgent.action_seen
    q_seen,         \* MonteCarloAgent.q_seen
    state,          \* Player.state of player 1: the state identified last
    action,         \* Player.action of player 1: the action step returned last
    actions_dict,   \* the feasibility of every action handed to the last step
    scan,           \* the shuffled actions_possible of the last greedy step
    apc,            \* the position of the tournament
    game_no,        \* the number of the running game
    plays,          \* the number of agent plays in the running game
    updates,        \* history: the update calls in the running game
    episode         \* history: the (state, action) pairs step returned in the running game

gvars == <<deck, hand, card_play, card_open, count, penalty, i, turn_no, winner,
           starting_name, player_act, loop_card_open, pc, drew, played, last_played,
           forced, built>>

avars == <<algorithm, q, visit, agent_R, prev_state, prev_action, state_seen, action_seen, q_seen,
           state, action, actions_dict, scan, apc, game_no, plays, updates, episode>>

vars == <<gvars, avars>>

player_pas == Other(player_act)

Zero2 == [p \in Players |-> 0]

\* ------------------------------------------------------ Agent.__init__
\* the initial 0 of prev_state and prev_action
NoState == <<>>
NoAction == "NONE"

\* the update calls of a tournament: one for every play and one at the end
\* of every game
MaxUpdates == MaxGames * (MaxPlays + 1)

\* table values are kept in units of 1 / One, which makes every product
\* with the step size 1 / StepDen exact within MaxUpdates updates
One == StepDen ^ MaxUpdates

\* self.step_size * x
step_size(x) == x \div StepDen

\* the index x columns of the tables
Pairs == states_all \X Actions

\* np.zeros((len(self.states), len(self.actions)))
zeros == [pr \in Pairs |-> 0]

\* an agent on which nothing has been called, outside a tournament
AgentIdle ==
    /\ algorithm = "q-learning"
    /\ q = zeros
    /\ visit = zeros
    /\ agent_R = [pr \in Pairs |-> R(pr[1], pr[2])]
    /\ prev_state = NoState
    /\ prev_action = NoAction
    /\ state_seen = <<>>
    /\ action_seen = <<>>
    /\ q_seen = <<>>
    /\ state = NoState
    /\ action = NoAction
    /\ actions_dict = [a \in Actions |-> 0]
    /\ scan = <<>>
    /\ apc = "idle"
    /\ game_no = 0
    /\ plays = 0
    /\ updates = 0
    /\ episode = <<>>

\* Deck(), Player() x 2: the state when Turn.__init__ starts
Init ==
    /\ \E b \in DeckBounds :
        /\ deck = [cards |-> build(b), cards_disc |-> <<>>, shuffled |-> TRUE]
        /\ built = Len(build(b))
    /\ hand = [p \in Players |-> EmptyHand]
    /\ card_play = [p \in Players |-> NoCard]
    /\ card_open = NoCard
    /\ count = 0
    /\ penalty = 0
    /\ i = 0
    /\ turn_no = 0
    /\ winner = 0
    /\ starting_name \in Players
    /\ player_act = starting_name
    /\ loop_card_open = NoCard
    /\ pc = "turn_init"
    /\ drew = Zero2
    /\ played = Zero2
    /\ last_played = NoCard
    /\ forced = FALSE
    /\ AgentIdle


\* ------------------------------------------------- Turn.__init__, start_up
\* Player.draw: the card drawn from the deck joins the hand
draw(p, o) ==
    /\ deck' = o.deck
    /\ hand' = [hand EXCEPT ![p] = HandAdd(@, o.card)]
    /\ drew' = [drew EXCEPT ![p] = @ + 1]

\* self.card_open = self.deck.draw_from_deck()
TurnInit ==
    /\ UNCHANGED avars
    /\ pc = "turn_init"
    /\ \E o \in draw_from_deck(deck) :
        /\ deck' = o.deck
        /\ card_open' = o.card
    /\ pc' = "start_up"
    /\ UNCHANGED <<hand, card_play, count, penalty, i, turn_no, winner, starting_name,
                   player_act, loop_card_open, drew, played, last_played, forced, built>>

\* one iteration of: while self.card_open.value not in range(0, 10)
StartUpRedraw ==
    /\ UNCHANGED avars
    /\ pc = "start_up"
    /\ card_open.value \notin NumericValues
    /\ \E o \in draw_from_deck(deck) :
        /\ deck' = o.deck
        /\ card_open' = o.card
    /\ UNCHANGED <<hand, card_play, count, penalty, i, turn_no, winner, starting_name,
                   player_act, loop_card_open, pc, drew, played, last_played, forced,
                   built>>

\* the open card is numeric: the while loop ends and the deal begins
StartUpDone ==
    /\ UNCHANGED avars
    /\ pc = "start_up"
    /\ card_open.value \in NumericValues
    /\ pc' = "deal"
    /\ i' = 0
    /\ UNCHANGED <<deck, hand, card_play, card_open, count, penalty, turn_no, winner,
                   starting_name, player_act, loop_card_open, drew, played, last_played,
                   forced, built>>

\* one draw of: for i in range(7): player_1.draw(...); player_2.draw(...)
Deal ==
    /\ UNCHANGED avars
    /\ pc = "deal"
    /\ \E o \in draw_from_deck(deck) :
        /\ deck' = o.deck
        /\ hand' = [hand EXCEPT ![IF i % 2 = 0 THEN 1 ELSE 2] = HandAdd(@, o.card)]
    /\ i' = IF i + 1 = 2 * HandSize THEN 0 ELSE i + 1
    /\ pc' = IF i + 1 = 2 * HandSize THEN "loop" ELSE "deal"
    /\ UNCHANGED <<card_play, card_open, count, penalty, turn_no, winner, starting_name,
                   player_act, loop_card_open, drew, played, last_played, forced, built>>

\* ------------------------------------------------------- the game loop
\* roles that follow the turn number alone
ActiveOfFirst(n) == IF n % 2 = 1 THEN 1 ELSE 2

\* the roles of the turn with number n
ActiveOf(n) ==
    IF starting_name = 1
    THEN (IF n % 2 = 1 THEN 1 ELSE 2)
    ELSE (IF n % 2 = 0 THEN 1 ELSE 2)

\* a turn that starts without resetting the counter
CountKept(c) == c

\* self.count = 0 at the start of Turn.action
CountAtStart(c) == 0

\* a turn that enters the chain for PL4 alone
AfterPlayPL4Only(h, act, cp) ==
    IF check_win(h[act]) \/ check_win(h[Other(act)]) THEN [pc |-> "returned", penalty |-> 0]
    ELSE IF cp.value = "PL4" THEN [pc |-> "chain_pas", penalty |-> 4]
    ELSE [pc |-> "returned", penalty |-> 0]

\* where Turn.action goes after the active player's play, with the hands h
\* and the played card cp: the two win checks, then the PL4 / PL2 branches
AfterPlay(h, act, cp) ==
    IF check_win(h[act]) \/ check_win(h[Other(act)]) THEN [pc |-> "returned", penalty |-> 0]
    ELSE IF cp.value = "PL4" THEN [pc |-> "chain_pas", penalty |-> 4]
    ELSE IF cp.value = "PL2" THEN [pc |-> "chain_pas", penalty |-> 2]
    ELSE [pc |-> "returned", penalty |-> 0]

\* a play whose card stays in the hand
PlayKeepsCard(p, h, d, c) ==
    LET nx == AfterPlay(h, p, c)
    IN  /\ hand' = h
        /\ deck' = discard(d, c)
        /\ card_play' = [card_play EXCEPT ![p] = c]
        /\ card_open' = c
        /\ last_played' = c
        /\ played' = [Zero2 EXCEPT ![p] = 1]
        /\ pc' = nx.pc
        /\ penalty' = nx.penalty
        /\ count' = IF nx.pc = "chain_pas" THEN 1 ELSE CountAtStart(count)

\* play_agent / play_rand: card c leaves hand h of player p and is discarded;
\* Turn.action makes it the open card and goes on to the win checks
Play(p, h, d, c) ==
    LET h1 == [h EXCEPT ![p] = HandRemove(@, c)]
        nx == AfterPlay(h1, p, c)
    IN  /\ hand' = h1
        /\ deck' = discard(d, c)
        /\ card_play' = [card_play EXCEPT ![p] = c]
        /\ card_open' = c
        /\ last_played' = c
        /\ played' = [Zero2 EXCEPT ![p] = 1]
        /\ pc' = nx.pc
        /\ penalty' = nx.penalty
        /\ count' = IF nx.pc = "chain_pas" THEN 1 ELSE CountAtStart(count)

\* a loop iteration whose active player holds a playable card: case (1)
TurnPlay ==
    /\ UNCHANGED avars
    /\ pc = "loop"
    /\ winner = 0
    /\ LET act == ActiveOf(turn_no + 1) IN
        /\ hand_play(hand[act], card_open) # {}
        /\ turn_no' = (turn_no + 1) % 2
        /\ loop_card_open' = card_open
        /\ player_act' = act
        /\ drew' = Zero2
        /\ forced' = FALSE
        /\ \E c \in hand_play(hand[act], card_open) : Play(act, hand, deck, c)
    /\ UNCHANGED <<i, winner, starting_name, built>>

\* a loop iteration whose active player has to draw: cases (2a) and (2b)
TurnDraw ==
    /\ UNCHANGED avars
    /\ pc = "loop"
    /\ winner = 0
    /\ LET act == ActiveOf(turn_no + 1) IN
        /\ hand_play(hand[act], card_open) = {}
        /\ turn_no' = (turn_no + 1) % 2
        /\ loop_card_open' = card_open
        /\ player_act' = act
        /\ drew' = [Zero2 EXCEPT ![act] = 1]
        /\ forced' = TRUE
        /\ \E o \in draw_from_deck(deck) :
            LET h1 == [hand EXCEPT ![act] = HandAdd(@, o.card)] IN
            IF hand_play(h1[act], card_open) # {}
            THEN \E c \in hand_play(h1[act], card_open) : Play(act, h1, o.deck, c)
            ELSE /\ hand' = h1
                 /\ deck' = o.deck
                 /\ card_play' = [card_play EXCEPT ![act] = Card("0", "0")]
                 /\ played' = Zero2
                 /\ pc' = "returned"
                 /\ count' = CountAtStart(count)
                 /\ penalty' = 0
                 /\ UNCHANGED <<card_open, last_played>>
    /\ UNCHANGED <<i, winner, starting_name, built>>

\* --------------------------------------------------------- Turn.action_plus
\* the cards of hand h a counter-play may use: card.value == "PL" + str(penalty)
CounterCards(h, pen) ==
    {c \in CardSet : h[c] > 0 /\ c.value = (IF pen = 4 THEN "PL4" ELSE "PL2")}

\* Player.play_counter: the card leaves the hand and is discarded
play_counter(p, c) ==
    /\ hand' = [hand EXCEPT ![p] = HandRemove(@, c)]
    /\ deck' = discard(deck, c)
    /\ card_play' = [card_play EXCEPT ![p] = c]
    /\ last_played' = c
    /\ played' = [played EXCEPT ![p] = @ + 1]

\* a chain without a win check after the counter-play
AfterCounterNoCheck(h, nx) == nx

\* the win check after a counter-play: return, or go on at position nx
AfterCounter(h, nx) == IF check_win(h) THEN "returned" ELSE nx

\* the first half of the while body: the opponent counters or cannot
CounterPas ==
    /\ UNCHANGED avars
    /\ pc = "chain_pas"
    /\ IF CounterCards(hand[player_pas], penalty) # {}
       THEN /\ \E c \in CounterCards(hand[player_pas], penalty) : play_counter(player_pas, c)
            /\ count' = count + 1
            /\ pc' = AfterCounter(hand'[player_pas], "chain_act")
       ELSE /\ pc' = AfterCounter(hand[player_pas], AfterCounter(hand[player_act], "penalty"))
            /\ UNCHANGED <<hand, deck, card_play, last_played, played, count>>
    /\ UNCHANGED <<card_open, penalty, i, turn_no, winner, starting_name, player_act,
                   loop_card_open, drew, forced, built>>

\* the second half of the while body: the active player counters or cannot
CounterAct ==
    /\ UNCHANGED avars
    /\ pc = "chain_act"
    /\ IF CounterCards(hand[player_act], penalty) # {}
       THEN /\ \E c \in CounterCards(hand[player_act], penalty) : play_counter(player_act, c)
            /\ count' = count + 1
            /\ pc' = AfterCounter(hand'[player_act], "chain_pas")
       ELSE /\ pc' = AfterCounter(hand[player_act], "penalty")
            /\ UNCHANGED <<hand, deck, card_play, last_played, played, count>>
    /\ UNCHANGED <<card_open, penalty, i, turn_no, winner, starting_name, player_act,
                   loop_card_open, drew, forced, built>>

\* the penalty applied to the other parity
VictimFlipped == IF count % 2 = 0 THEN player_pas ELSE player_act

\* the player the penalty is applied to
Victim == IF count % 2 = 0 THEN player_act ELSE player_pas

\* one iteration of: for i in range(self.count * penalty): victim.draw(...)
PenaltyDraw ==
    /\ UNCHANGED avars
    /\ pc = "penalty"
    /\ \E o \in draw_from_deck(deck) : draw(Victim, o)
    /\ i' = IF i + 1 = count * penalty THEN 0 ELSE i + 1
    /\ pc' = IF i + 1 = count * penalty THEN "returned" ELSE "penalty"
    /\ UNCHANGED <<card_play, card_open, count, penalty, turn_no, winner, starting_name,
                   player_act, loop_card_open, played, last_played, forced, built>>

\* ---------------------------------------------------- draws that cannot pop
\* the program is about to call draw_from_deck
Drawing ==
    \/ pc = "turn_init"
    \/ pc = "start_up" /\ card_open.value \notin NumericValues
    \/ pc = "deal"
    \/ pc = "loop" /\ hand_play(hand[ActiveOf(turn_no + 1)], card_open) = {}
    \/ pc = "penalty"

\* pop from an empty list raises IndexError, which nothing catches
DrawFromEmpty ==
    /\ UNCHANGED avars
    /\ Drawing
    /\ draw_from_deck(deck) = {}
    /\ pc' = "crashed"
    /\ UNCHANGED <<deck, hand, card_play, card_open, count, penalty, i, turn_no, winner,
                   starting_name, player_act, loop_card_open, drew, played, last_played,
                   forced, built>>

\* ------------------------------------------------ the game loop after a turn
\* turn_no after the extra-turn rules
ExtraTurn(n) ==
    LET n1 == IF card_play[player_act].value \in {"REV", "SKIP"} THEN n - 1 ELSE n
        n2 == IF count > 0 /\ count % 2 = 0 THEN n1 - 1 ELSE n1
    IN  n2 % 2

\* a game loop that checks the active player alone
WinnerOfActive(h) == IF check_win(h[player_act]) THEN player_act ELSE 0

\* the winner the two win checks after turn.action find (0: none)
WinnerOf(h) ==
    IF check_win(h[player_act]) THEN player_act
    ELSE IF check_win(h[player_pas]) THEN player_pas
    ELSE 0

\* the win checks and the extra-turn rules that follow turn.action
GameCheck ==
    /\ UNCHANGED avars
    /\ pc = "returned"
    /\ winner' = WinnerOf(hand)
    /\ IF WinnerOf(hand) # 0
       THEN /\ pc' = "final"
            /\ UNCHANGED turn_no
       ELSE /\ turn_no' = ExtraTurn(turn_no)
            /\ pc' = "loop"
    /\ drew' = Zero2
    /\ played' = Zero2
    /\ forced' = FALSE
    /\ UNCHANGED <<deck, hand, card_play, card_open, count, penalty, i, starting_name,
                   player_act, loop_card_open, last_played, built>>

\* the statements after the loop: the game is over
GameEnd ==
    /\ UNCHANGED avars
    /\ pc = "final"
    /\ pc' = "done"
    /\ UNCHANGED <<deck, hand, card_play, card_open, count, penalty, i, turn_no, winner,
                   starting_name, player_act, loop_card_open, drew, played, last_played,
                   forced, built>>

Next ==
    \/ TurnInit
    \/ StartUpRedraw
    \/ StartUpDone
    \/ Deal
    \/ TurnPlay
    \/ TurnDraw
    \/ CounterPas
    \/ CounterAct
    \/ PenaltyDraw
    \/ DrawFromEmpty
    \/ GameCheck
    \/ GameEnd

Spec == Init /\ [][Next]_vars

\* the program takes its next step as long as it has one
FairSpec == Spec /\ WF_vars(Next)

TypeOK ==
    /\ pc \in {"turn_init", "start_up", "deal", "loop", "chain_pas", "chain_act",
               "penalty", "returned", "final", "done", "crashed"}
    /\ winner \in {0, 1, 2}
    /\ turn_no \in {0, 1}
    /\ count \in Nat


\* ------------------------------------------------------------ the agent
\* the value below every table value that stands for -float('inf')
NegInf == -1

\* every action counts as possible
actions_possibleAll(ad) == actions_all

\* [key for key, val in actions_dict.items() if val != 0]
actions_possible(ad) == SelectSeq(actions_all, LAMBDA a : ad[a] # 0)

Range(t) == {t[k] : k \in 1..Len(t)}

\* the orders random.shuffle can leave the list in
shuffle(t) == {u \in [1..Len(t) -> Range(t)] : \A j, k \in 1..Len(t) : u[j] = u[k] => j = k}

\* a scan that keeps the first maximum
keepsStrict(val, val_max) == val > val_max

\* if val >= val_max
keeps(val, val_max) == val >= val_max

\* the for loop of the greedy branch over the rest sc of the shuffled list
RECURSIVE scan_max(_, _, _, _, _)
scan_max(tab, s, sc, val_max, act) ==
    IF sc = <<>> THEN act
    ELSE LET val == tab[<<s, Head(sc)>>] IN
         IF keeps(val, val_max)
         THEN scan_max(tab, s, Tail(sc), val, Head(sc))
         ELSE scan_max(tab, s, Tail(sc), val_max, act)

\* step up to the return value: the explored or the greedy action for state
\* s and feasibilities ad; scan' is empty in the exploring branch
select_action(s, ad) ==
    /\ state' = s
    /\ actions_dict' = ad
    /\ \/ /\ scan' = <<>>
          /\ action' \in Range(actions_possible(ad))
       \/ \E sc \in shuffle(actions_possible(ad)) :
          /\ scan' = sc
          /\ action' = scan_max(q, s, sc, NegInf, NoAction)

\* an update that bootstraps from the best action of the state
QUpdatedMax(tab, ps, pa, s, a) ==
    LET prev_q == tab[<<ps, pa>>]
        this_q == CHOOSE v \in {tab[<<s, b>>] : b \in Actions} :
                      \A b \in Actions : tab[<<s, b>>] <= v
        reward == agent_R[<<s, a>>] * One
    IN  [tab EXCEPT ![<<ps, pa>>] =
            IF reward = 0
            THEN prev_q + step_size(reward + this_q - prev_q)
            ELSE prev_q + step_size(reward - prev_q)]

\* the value table after the Bellman step of QLearningAgent.update
QUpdated(tab, ps, pa, s, a) ==
    LET prev_q == tab[<<ps, pa>>]
        this_q == tab[<<s, a>>]
        reward == agent_R[<<s, a>>] * One
    IN  [tab EXCEPT ![<<ps, pa>>] =
            IF reward = 0
            THEN prev_q + step_size(reward + this_q - prev_q)
            ELSE prev_q + step_size(reward - prev_q)]

\* an update that records the previous pair on the first call alone
QLearningUpdateFirstOnly(s, a) ==
    /\ IF prev_state # NoState
       THEN /\ q' = QUpdated(q, prev_state, prev_action, s, a)
            /\ visit' = [visit EXCEPT ![<<prev_state, prev_action>>] = @ + 1]
            /\ UNCHANGED <<prev_state, prev_action>>
       ELSE /\ UNCHANGED <<q, visit>>
            /\ prev_state' = s
            /\ prev_action' = a

\* QLearningAgent.update(state, action)
QLearningUpdate(s, a) ==
    /\ IF prev_state # NoState
       THEN /\ q' = QUpdated(q, prev_state, prev_action, s, a)
            /\ visit' = [visit EXCEPT ![<<prev_state, prev_action>>] = @ + 1]
       ELSE UNCHANGED <<q, visit>>
    /\ prev_state' = s
    /\ prev_action' = a

\* a step that records every visit
every_visit(seen, pair) == TRUE

\* if (state, action) not in self.q_seen
first_visit(seen, pair) == pair \notin Range(seen)

\* the for loop over zip(state_seen, action_seen) with reward r
RECURSIVE mc_pass(_, _, _, _)
mc_pass(tab, ss, as, r) ==
    IF ss = <<>> \/ as = <<>> THEN tab
    ELSE mc_pass([tab EXCEPT ![<<Head(ss), Head(as)>>] = @ + step_size(r - @)],
                 Tail(ss), Tail(as), r)

\* an update that leaves the buffer as it is
kept(buf) == buf

\* list.clear()
cleared(buf) == <<>>

\* MonteCarloAgent.update(state, action)
MonteCarloUpdate(s, a) ==
    /\ q' = mc_pass(q, state_seen, action_seen, agent_R[<<s, a>>] * One)
    /\ state_seen' = cleared(state_seen)
    /\ action_seen' = cleared(action_seen)
    /\ q_seen' = cleared(q_seen)

\* ------------------------------------------------------- the tournament
\* the states player 1 is taken to be in: the open card has the first
\* colour, the hand holds normal cards alone and none of them is playable
InputStates ==
    {s \in states_all :
        /\ s[1] = AllColors[1]
        /\ \A k \in (NumNorm + 2)..Len(s) : s[k] = 0}

\* the states of a player about to play: the hand is not empty
PlayStates == {s \in InputStates : sum(SubSeq(s, 2, NumHeld + 1)) > 0}

\* the feasibility dictionaries with a possible action
Dicts == {ad \in [Actions -> 0..1] : \E a \in Actions : ad[a] # 0}

\* no game is played while the tournament is modelled
GameIdle ==
    /\ deck = [cards |-> <<>>, cards_disc |-> <<>>, shuffled |-> TRUE]
    /\ built = 0
    /\ hand = [p \in Players |-> EmptyHand]
    /\ card_play = [p \in Players |-> NoCard]
    /\ card_open = NoCard
    /\ count = 0
    /\ penalty = 0
    /\ i = 0
    /\ turn_no = 0
    /\ winner = 0
    /\ starting_name = 1
    /\ player_act = 1
    /\ loop_card_open = NoCard
    /\ pc = "idle"
    /\ drew = Zero2
    /\ played = Zero2
    /\ last_played = NoCard
    /\ forced = FALSE

\* tournament(): the agent is constructed, the first game begins
AgentInit ==
    /\ GameIdle
    /\ algorithm \in {"q-learning", "monte-carlo"}
    /\ q = zeros
    /\ visit = zeros
    /\ agent_R = [pr \in Pairs |-> R(pr[1], pr[2])]
    /\ prev_state = NoState
    /\ prev_action = NoAction
    /\ state_seen = <<>>
    /\ action_seen = <<>>
    /\ q_seen = <<>>
    /\ state = NoState
    /\ action = NoAction
    /\ actions_dict = [a \in Actions |-> 0]
    /\ scan = <<>>
    /\ apc = "play"
    /\ game_no = 1
    /\ plays = 0
    /\ updates = 0
    /\ episode = <<>>

\* play_agent with the Q-learning agent: agent.step
QStep ==
    /\ UNCHANGED agent_R
    /\ apc = "play"
    /\ algorithm = "q-learning"
    /\ plays < MaxPlays
    /\ \E s \in PlayStates, ad \in Dicts : select_action(s, ad)
    /\ plays' = plays + 1
    /\ episode' = Append(episode, <<state', action'>>)
    /\ apc' = "stepped"
    /\ UNCHANGED <<algorithm, q, visit, prev_state, prev_action, state_seen, action_seen,
                   q_seen, game_no, updates>>
    /\ UNCHANGED gvars

\* play_agent with the Q-learning agent: agent.update after the step, and
\* the return that ends the life of the step's locals
QUpdatePlay ==
    /\ UNCHANGED agent_R
    /\ apc = "stepped"
    /\ algorithm = "q-learning"
    /\ QLearningUpdate(state, action)
    /\ updates' = updates + 1
    /\ actions_dict' = [a \in Actions |-> 0]
    /\ scan' = <<>>
    /\ apc' = "play"
    /\ UNCHANGED <<algorithm, state_seen, action_seen, q_seen, state, action, game_no,
                   plays, episode>>
    /\ UNCHANGED gvars

\* play_agent with the Monte Carlo agent: MonteCarloAgent.step
MCStep ==
    /\ UNCHANGED agent_R
    /\ apc = "play"
    /\ algorithm = "monte-carlo"
    /\ plays < MaxPlays
    /\ \E s \in PlayStates, ad \in Dicts : select_action(s, ad)
    /\ IF first_visit(q_seen, <<state', action'>>)
       THEN /\ state_seen' = Append(state_seen, state')
            /\ action_seen' = Append(action_seen, action')
       ELSE UNCHANGED <<state_seen, action_seen>>
    /\ q_seen' = Append(q_seen, <<state', action'>>)
    /\ visit' = [visit EXCEPT ![<<state', action'>>] = @ + 1]
    /\ plays' = plays + 1
    /\ episode' = Append(episode, <<state', action'>>)
    /\ apc' = "stepped"
    /\ UNCHANGED <<algorithm, q, prev_state, prev_action, game_no, updates>>
    /\ UNCHANGED gvars

\* play_agent with the Monte Carlo agent returns: the step's locals are gone
MCReturn ==
    /\ UNCHANGED agent_R
    /\ apc = "stepped"
    /\ algorithm = "monte-carlo"
    /\ actions_dict' = [a \in Actions |-> 0]
    /\ scan' = <<>>
    /\ apc' = "play"
    /\ UNCHANGED <<algorithm, q, visit, prev_state, prev_action, state_seen, action_seen,
                   q_seen, state, action, game_no, plays, updates, episode>>
    /\ UNCHANGED gvars

\* the end of a game: identify_state, then agent.update(state, action)
QFinal ==
    /\ UNCHANGED agent_R
    /\ apc = "play"
    /\ algorithm = "q-learning"
    /\ plays > 0
    /\ \E s \in InputStates :
        /\ state' = s
        /\ QLearningUpdate(s, action)
    /\ updates' = updates + 1
    /\ apc' = "ended"
    /\ UNCHANGED <<algorithm, state_seen, action_seen, q_seen, action, actions_dict,
                   scan, game_no, plays, episode>>
    /\ UNCHANGED gvars

MCFinal ==
    /\ UNCHANGED agent_R
    /\ apc = "play"
    /\ algorithm = "monte-carlo"
    /\ plays > 0
    /\ \E s \in InputStates :
        /\ state' = s
        /\ MonteCarloUpdate(s, action)
    /\ updates' = updates + 1
    /\ apc' = "ended"
    /\ UNCHANGED <<algorithm, visit, prev_state, prev_action, action, actions_dict,
                   scan, game_no, plays, episode>>
    /\ UNCHANGED gvars

\* the next iteration of the tournament: a new Game with new players and
\* the same agent
NewGame ==
    /\ UNCHANGED agent_R
    /\ apc = "ended"
    /\ game_no < MaxGames
    /\ game_no' = game_no + 1
    /\ state' = NoState
    /\ action' = NoAction
    /\ plays' = 0
    /\ updates' = 0
    /\ episode' = <<>>
    /\ apc' = "play"
    /\ UNCHANGED <<algorithm, q, visit, prev_state, prev_action, state_seen, action_seen,
                   q_seen, actions_dict, scan>>
    /\ UNCHANGED gvars

AgentNext ==
    \/ QStep
    \/ QUpdatePlay
    \/ MCStep
    \/ MCReturn
    \/ QFinal
    \/ MCFinal
    \/ NewGame

AgentSpec == AgentInit /\ [][AgentNext]_vars

AgentTypeOK ==
    /\ apc \in {"play", "stepped", "ended"}
    /\ \A pr \in Pairs : q[pr] \in 0..One /\ visit[pr] \in Nat
    /\ game_no \in 1..MaxGames
    /\ plays \in 0..MaxPlays

\* ------------------------------------------------------------ properties
\* |draw pile| + |discard pile| + |hand of player 1| + |hand of player 2|
Total == Len(deck.cards) + Len(deck.cards_disc) + HandLen(hand[1]) + HandLen(hand[2])

\* the hands have been dealt and the game loop is running or over
Playing == pc \notin {"turn_init", "start_up", "deal"}

NoHandEmpty == ~check_win(hand[1]) /\ ~check_win(hand[2])

\* the cards player p drew as a penalty in the current turn
PenaltyDrawn(p) == drew[p] - (IF forced /\ p = player_act THEN 1 ELSE 0)

\* C1: at every point of a game the draw pile, the discard pile and the two
\* hands together hold as many cards as the build rule created.
C1_DeckInvariant == Total = built

\* C2: whenever draw_from_deck is called, the draw pile or the discard pile
\* holds at least one card.
C2_DrawNeverEmpty == Drawing => Len(deck.cards) + Len(deck.cards_disc) > 0

\* C3: the game loop stops on the turn in which a hand reaches zero: a turn
\* starts or goes on only while both hands hold cards, the recorded winner is
\* a player whose hand is empty, and once a hand is empty the only steps left
\* record the winner and end the game, with no further play or draw.
C3_StateInv ==
    /\ pc \in {"loop", "chain_pas", "chain_act", "penalty"} => NoHandEmpty /\ winner = 0
    /\ winner # 0 => pc \in {"final", "done"} /\ check_win(hand[winner])

C3_StopsOnWin ==
    /\ []C3_StateInv
    /\ [][Playing /\ ~NoHandEmpty =>
            /\ hand' = hand
            /\ deck' = deck
            /\ card_open' = card_open
            /\ turn_no' = turn_no
            /\ pc' \in {"final", "done"}
            /\ winner' # 0
            /\ check_win(hand[winner'])]_vars

C3_Witness == pc = "done" /\ winner # 0 /\ check_win(hand[winner])

\* the program has stopped: Game.__init__ has returned, or an exception ended it
Stopped == pc \in {"done", "crashed"}

\* C4: every game goes on until it has a winner: the program never stops in a
\* state without one.
C4_Terminates == Stopped => winner # 0

\* a state of the game loop from which the turns repeat for ever: the piles
\* hold the open card alone, it is no penalty card, and neither hand can be
\* played; each turn draws that card back and plays it again.
C4_EndlessState ==
    /\ pc = "loop"
    /\ deck.cards = <<>>
    /\ deck.cards_disc = <<card_open>>
    /\ card_open.value \notin {"PL2", "PL4"}
    /\ hand_play(hand[1], card_open) = {}
    /\ hand_play(hand[2], card_open) = {}

\* C5: after a turn without a winner in which the active player's played card
\* is a SKIP or a REVERSE card, the same player is active in the next turn.
C5_SkipReverseRetain ==
    [][pc = "returned" /\ pc' = "loop" /\ card_play[player_act].value \in {"SKI", "REV"}
        => ActiveOf(turn_no' + 1) = player_act]_vars

\* C6: after a turn without a winner whose chain counter ended positive and
\* even, the same player is active in the next turn; every turn starts with
\* the counter reset, so the counter a turn ends with counts the penalty
\* cards played in that very turn.
C6_StateInv ==
    pc = "returned" =>
        \/ count = 0
        \/ /\ count = played[1] + played[2]
           /\ card_play[player_act].value \in {"PL2", "PL4"}

C6_EvenChainRetains ==
    /\ []C6_StateInv
    /\ [][pc = "returned" /\ pc' = "loop" /\ count > 0 /\ count % 2 = 0
            => ActiveOf(turn_no' + 1) = player_act]_vars
    /\ [][pc = "loop" /\ pc' \in {"returned", "chain_pas"}
            => count' = (IF pc' = "chain_pas" THEN 1 ELSE 0)]_vars

C6_Witness ==
    pc = "loop" /\ winner = 0 /\ count = 2 /\ ActiveOf(turn_no + 1) = player_act

\* C7: when a penalty chain ends without a win, the parity of the counter
\* sets the victim: an even counter makes the active player draw
\* counter * penalty cards and the passive player none, an odd counter makes
\* the passive player draw counter * penalty cards and the active player none.
C7_ParityVictim ==
    pc = "returned" /\ count > 0 /\ NoHandEmpty =>
        /\ count % 2 = 0 =>
            PenaltyDrawn(player_act) = count * penalty /\ PenaltyDrawn(player_pas) = 0
        /\ count % 2 = 1 =>
            PenaltyDrawn(player_pas) = count * penalty /\ PenaltyDrawn(player_act) = 0

C7_Witness ==
    /\ pc = "returned" /\ count = 2 /\ NoHandEmpty
    /\ PenaltyDrawn(player_act) = 2 * penalty

\* C8: a win check follows every counter-play: the chain goes on, and penalty
\* cards are drawn, only while both hands hold cards, and a turn whose
\* counter-play emptied a hand ends with no penalty card drawn by either player.
C8_WinCheckAfterCounter ==
    /\ pc \in {"chain_pas", "chain_act", "penalty"} => NoHandEmpty
    /\ pc = "returned" /\ count >= 2 /\ ~NoHandEmpty =>
        PenaltyDrawn(1) = 0 /\ PenaltyDrawn(2) = 0

C8_Witness == pc = "returned" /\ count = 3 /\ check_win(hand[player_act])

\* C9: at the end of a turn in which a card was played, the open card is the
\* card played most recently, the last counter card of a chain included.
C9_OpenIsLastPlayed ==
    pc = "returned" /\ played[1] + played[2] > 0 => card_open = last_played

\* C10 as claimed: the turn enters the penalty chain exactly when the active
\* player played a PL2 or PL4 card; otherwise it is done with the counter at 0.
C10_ChainIffDrawCard ==
    [][pc = "loop" /\ pc' \in {"returned", "chain_pas"} =>
        /\ pc' = "chain_pas" <=>
            /\ played'[player_act'] = 1
            /\ card_play'[player_act'].value \in {"PL2", "PL4"}
        /\ pc' = "returned" => count' = 0]_vars

\* C10 as amended: the turn enters the penalty chain exactly when the active
\* player played a PL2 or PL4 card and still holds a card after the play;
\* otherwise it is done with the counter at 0.
C10_ChainIffDrawCardNoWin ==
    [][pc = "loop" /\ pc' \in {"returned", "chain_pas"} =>
        /\ pc' = "chain_pas" <=>
            /\ played'[player_act'] = 1
            /\ card_play'[player_act'].value \in {"PL2", "PL4"}
            /\ ~check_win(hand'[player_act'])
        /\ pc' = "returned" => count' = 0]_vars

C10_Witness ==
    /\ pc = "returned" /\ count = 0
    /\ played[player_act] = 1
    /\ card_play[player_act].value \in {"PL2", "PL4"}
    /\ check_win(hand[player_act])

\* C11: a turn whose active player holds no playable card draws exactly one
\* card; when that card is not playable the turn ends with no card played,
\* the open card unchanged, the active hand one card larger, the passive
\* hand unchanged and the counter 0; a card is played only when the drawn
\* card is playable, and then it is the drawn card.
C11_ForcedDrawUnplayable ==
    [][pc = "loop" /\ hand_play(hand[ActiveOf(turn_no + 1)], card_open) = {}
        /\ pc' # "crashed"
       => LET act == ActiveOf(turn_no + 1)
              pas == Other(act)
          IN  /\ player_act' = act
              /\ drew'[act] = 1 /\ drew'[pas] = 0
              /\ hand'[pas] = hand[pas]
              /\ IF hand_play(hand'[act], card_open) = {} /\ played'[act] = 0
                 THEN /\ pc' = "returned"
                      /\ played' = Zero2
                      /\ card_open' = card_open
                      /\ HandLen(hand'[act]) = HandLen(hand[act]) + 1
                      /\ \A c \in CardSet : hand'[act][c] >= hand[act][c]
                      /\ deck'.cards_disc = Recycle(deck).cards_disc
                      /\ count' = 0
                 ELSE /\ played'[act] = 1
                      /\ hand'[act] = hand[act]
                      /\ evaluate_card(card_open', card_open.color, card_open.value)]_vars

C11_Witness ==
    /\ pc = "returned"
    /\ forced
    /\ played = Zero2
    /\ drew[player_act] = 1
    /\ HandLen(hand[player_act]) > HandSize
    /\ count = 0
    /\ card_open = loop_card_open

\* a Q-learning update call is being made (during a play or at the end of a game)
QUpdateCall == algorithm = "q-learning" /\ updates' = updates + 1

C13_QUpdateRule ==
    [][QUpdateCall /\ prev_state # NoState
       => LET prev == <<prev_state, prev_action>>
              prev_q == q[prev]
              curr_q == q[<<state', action'>>]
              r == R(state', action') * One
          IN  /\ StepDen * (q'[prev] - prev_q) = (IF r = 0 THEN curr_q - prev_q ELSE r - prev_q)
              /\ \A pr \in Pairs \ {prev} : q'[pr] = q[pr]
              /\ visit' = [visit EXCEPT ![prev] = @ + 1]
              /\ prev_state' = state' /\ prev_action' = action']_vars

\* a terminal update (reward 1) and a bootstrapping update that moved a
\* value towards a positive current value have both happened
C13_Witness ==
    /\ algorithm = "q-learning"
    /\ apc = "ended"
    /\ \E pr \in Pairs : q[pr] = One \div StepDen
    /\ \E pr \in Pairs : q[pr] = One \div (StepDen * StepDen)
    /\ \E pr \in Pairs : visit[pr] > 0

\* the Monte Carlo update at the end of a game is being made
MCUpdateCall == algorithm = "monte-carlo" /\ updates' = updates + 1

\* C14: the Monte Carlo update moves the value of every distinct pair
\* selected in the episode once by step_size * (r - value), r being the
\* reward of the terminal (state, action), also when the pair was selected
\* several times, and changes no entry of a pair that was not selected.
C14_MCUpdateOncePerPair ==
    [][MCUpdateCall
       => LET r == R(state', action') * One IN
          \A pr \in Pairs :
             IF pr \in Range(episode)
             THEN StepDen * (q'[pr] - q[pr]) = r - q[pr]
             ELSE q'[pr] = q[pr]]_vars

\* a pair selected twice in the first episode has been updated once towards
\* the reward 1
C14_Witness ==
    /\ algorithm = "monte-carlo"
    /\ apc = "ended"
    /\ game_no = 1
    /\ Len(episode) = 2 /\ episode[1] = episode[2]
    /\ q[episode[1]] = One \div StepDen

\* the pairs held by the buffers state_seen and action_seen
SeenPairs == {<<state_seen[k], action_seen[k]>> : k \in 1..min(Len(state_seen), Len(action_seen))}

C15_StateInv ==
    algorithm = "monte-carlo"
    => /\ apc # "ended" => SeenPairs = Range(episode) /\ Range(q_seen) = Range(episode)
       /\ Len(state_seen) = Len(action_seen)
       /\ (apc = "ended" \/ plays = 0
           => state_seen = <<>> /\ action_seen = <<>> /\ q_seen = <<>>)

\* C15: the episode buffers of the Monte Carlo agent are empty after every
\* update and at the start of every game, at all times they hold the pairs
\* selected in the running game alone, and an update changes no value of a
\* pair selected in another game only.
C15_BuffersCleared ==
    /\ []C15_StateInv
    /\ [][MCUpdateCall
          => /\ state_seen' = <<>> /\ action_seen' = <<>> /\ q_seen' = <<>>
             /\ \A pr \in Pairs \ Range(episode) : q'[pr] = q[pr]]_vars

\* the second game starts with empty buffers and values learned in the first
C15_Witness ==
    /\ algorithm = "monte-carlo"
    /\ game_no = 2
    /\ plays = 0
    /\ q_seen = <<>>
    /\ \E pr \in Pairs : q[pr] > 0

\* step has just returned from its greedy branch
GreedyReturned == apc = "stepped" /\ scan # <<>>

\* the value of the k-th action of the scan, and the largest of them
ScanVal(k) == q[<<state, scan[k]>>]
ScanMax == CHOOSE v \in {ScanVal(k) : k \in 1..Len(scan)} : \A k \in 1..Len(scan) : ScanVal(k) <= v

\* C16 as stated: among the legal actions of maximal value the greedy branch
\* returns the first one of the randomized scan order.
C16_FirstOfTies ==
    GreedyReturned
    => \E k \in 1..Len(scan) :
          /\ action = scan[k]
          /\ ScanVal(k) = ScanMax
          /\ \A j \in 1..(k - 1) : ScanVal(j) < ScanMax

\* C16, amended: among the legal actions of maximal value the greedy branch
\* returns the last one of the randomized scan order, for both agents.
C16_LastOfTies ==
    GreedyReturned
    => \E k \in 1..Len(scan) :
          /\ action = scan[k]
          /\ ScanVal(k) = ScanMax
          /\ \A j \in (k + 1)..Len(scan) : ScanVal(j) < ScanMax

\* a greedy step of agent alg with two actions of maximal value in the scan,
\* the second of which was returned
C16_WitnessOf(alg) ==
    /\ algorithm = alg
    /\ GreedyReturned
    /\ \E j, k \in 1..Len(scan) :
          j < k /\ ScanVal(j) = ScanMax /\ ScanVal(k) = ScanMax /\ action = scan[k]

C16_Witness == C16_WitnessOf("q-learning")

\* the same for the Monte Carlo agent, with an action of smaller value too
C16_WitnessMC ==
    /\ C16_WitnessOf("monte-carlo")
    /\ \E j \in 1..Len(scan) : ScanVal(j) < ScanMax

\* the legal actions of the last step: the feasibility entry is not 0
Legal == {a \in Actions : actions_dict[a] # 0}

\* C17: the action step returns is a legal action; in the greedy branch
\* all legal actions are scanned and the value of the returned action is at
\* least the value of every legal action in that state.
C17_LegalAndMaximal ==
    apc = "stepped"
    => /\ action \in Legal
       /\ scan # <<>>
          => /\ Range(scan) = Legal
             /\ \A b \in Legal : q[<<state, action>>] >= q[<<state, b>>]

\* a greedy step over two or more legal actions while an action that is not
\* legal has a larger value than the action returned
C17_Witness ==
    /\ GreedyReturned
    /\ Cardinality(Legal) >= 2
    /\ \E c \in Actions \ Legal : q[<<state, c>>] > q[<<state, action>>]

\* an exploring step returned a legal action of smaller value than another
C17_WitnessExplore ==
    /\ apc = "stepped" /\ scan = <<>>
    /\ \E b \in Legal : q[<<state, b>>] > q[<<state, action>>]

\* the sum of the held-count components of state s
HeldSum(s) == sum([k \in 1..NumHeld |-> s[k + 1]])

\* the reward table over the whole state space: no action matters and the
\* reward is 1 iff no card is held
RewardTable ==
    \A s \in states_all : \A a \in Actions :
        R(s, a) = (IF HeldSum(s) = 0 THEN 1 ELSE 0)

Universe ==
    product(<<{AllColors[k] : k \in 1..(NumStateColors + 1)}>> \o
            [k \in 1..Len(states_dict) |-> 0..(states_dict[k] + 1)])

\* the bounds of the state space as the claim gives them
InBounds(s) ==
    /\ s[1] \in {AllColors[k] : k \in 1..NumStateColors}
    /\ \A k \in 1..NumNorm : s[k + 1] \in 0..2
    /\ \A k \in (NumNorm + 1)..NumHeld : s[k + 1] \in 0..1
    /\ \A k \in (NumHeld + 1)..(NumHeld + NumNorm + NumSpec) : s[k + 1] \in 0..1
    /\ \A k \in 1..(NumNorm + NumSpec) : s[k + 1 + NumHeld] <= s[k + 1]

\* the generated space against the bounds, over the wider universe
SpaceExact ==
    /\ states_all \subseteq Universe
    /\ \A s \in Universe : s \in states_all <=> InBounds(s)

\* C19: the enumerated state space is exactly the set of tuples within the
\* component ranges whose playable count is at most the held count for
\* every type with a playable component.
C19_StateSpaceExact ==
    /\ SpaceExact
    /\ state # NoState => state \in states_all /\ InBounds(state)

\* the agent is in a state of the space next to a tuple that is left out
\* for a playable count above the held count
C19_Witness ==
    /\ apc = "stepped"
    /\ state \in states_all
    /\ \E s \in Universe :
          /\ SubSeq(s, 1, NumHeld + 1) = SubSeq(state, 1, NumHeld + 1)
          /\ \A k \in (NumHeld + 2)..Len(s) : s[k] \in 0..1
          /\ s \notin states_all

\* the cards of CardSet playable against open by the rule of the claim
Matching(open) ==
    {c \in CardSet : c.color = open.color \/ c.value = open.value \/ c.value \in Range(WildValues)}

\* evaluate_card against the rule, for every card and every open card
EvaluateRule ==
    \A c \in CardSet : \A o \in CardSet \cup {NoCard} :
        evaluate_card(c, o.color, o.value) <=> c \in Matching(o)

\* C20: a card is evaluated as playable iff its colour is the open card's
\* colour, or its value is the open card's value, or its value is a wild
\* marker; the playable subset of a hand is its cards of that kind.
C20_PlayableRule ==
    /\ EvaluateRule
    /\ \A p \in Players :
          hand_play(hand[p], card_open) = {c \in Matching(card_open) : hand[p][c] > 0}

\* a hand holds a playable wild card that matches the open card in neither
\* colour nor value
C20_Witness ==
    /\ pc = "loop"
    /\ \E p \in Players : \E c \in hand_play(hand[p], card_open) :
          /\ c.value \in Range(WildValues)
          /\ c.color # card_open.color
          /\ c.value # card_open.value

\* a hand holds a card that is not playable: it matches the open card in
\* neither colour nor value and is no wild card
C20_WitnessNotPlayable ==
    /\ pc = "loop"
    /\ \E p \in Players : \E d \in CardSet :
          hand[p][d] > 0 /\ d \notin hand_play(hand[p], card_open)

\* the draw pile of deck d is in an order the program has fixed: its top
\* card is its last element
Ordered(d) == ~d.shuffled \/ Len(d.cards) = 0

\* the outcome o of a draw from deck d, by the rule of the claim
DrawRule(d, o) ==
    IF Len(d.cards) > 0
    THEN /\ o.deck.cards_disc = d.cards_disc
         /\ Len(o.deck.cards) = Len(d.cards) - 1
         /\ \E k \in 1..Len(d.cards) :
               o.card = d.cards[k] /\ o.deck.cards = RemoveAt(d.cards, k)
         /\ Ordered(d)
            => o.card = d.cards[Len(d.cards)]
               /\ o.deck.cards = SubSeq(d.cards, 1, Len(d.cards) - 1)
    ELSE /\ o.deck.cards_disc = <<>>
         /\ o.card = d.cards_disc[Len(d.cards_disc)]
         /\ o.deck.cards = SubSeq(d.cards_disc, 1, Len(d.cards_disc) - 1)

\* a step that is one draw by one player, by the rule of the claim
DrawStep ==
    \E o \in draw_from_deck(deck) : \E p \in Players :
        /\ DrawRule(deck, o)
        /\ deck' = o.deck
        /\ hand'[p] = HandAdd(hand[p], o.card)
        /\ hand'[Other(p)] = hand[Other(p)]

\* every draw the program is about to make follows the rule
C21_StateInv == Drawing => \A o \in draw_from_deck(deck) : DrawRule(deck, o)

\* C21: a draw on a non-empty draw pile removes and returns its top card
\* and leaves the discard pile unchanged; a draw on an empty draw pile
\* makes the discard pile the new draw pile in its existing order, leaves
\* the discard pile empty and returns the top card of the new draw pile.
C21_DrawAndRecycle ==
    /\ []C21_StateInv
    /\ [][(pc = "deal" \/ pc = "penalty") /\ pc' # "crashed" => DrawStep]_vars

\* a penalty draw has just recycled a discard pile of three or more cards:
\* the drawn card was the card discarded last
C21_Witness ==
    /\ pc \in {"penalty", "returned"}
    /\ drew[1] + drew[2] > 0
    /\ ~deck.shuffled
    /\ deck.cards_disc = <<>>
    /\ Len(deck.cards) >= 2
    /\ \E p \in Players : hand[p][last_played] > 0

\* C22 as stated: the final agent update of a game is handed the state of
\* player 1 against the open card as it stands at game end; the card the
\* game loop hands to identify_state is its local card_open.
C22_FinalUpdateOpenCard == pc = "final" => loop_card_open = card_open

\* a turn is being taken: the step from the top of the game loop to the
\* return of Turn.action or into the penalty chain
TurnTaken == pc = "loop" /\ pc' \notin {"loop", "crashed"}

\* no turn has been taken in this game yet
FirstTurn == \A p \in Players : card_play[p] = NoCard

C23_StateInv ==
    Playing => player_act \in Players /\ player_pas \in Players /\ player_pas # player_act

\* C23: the active player of the first turn is the starting player; after
\* a turn without a winner in which neither SKIP nor REVERSE was played and
\* the penalty counter is 0 or odd, the other player is active in the next
\* turn; the active and the passive player are always two different players.
C23_RolesAlternate ==
    /\ []C23_StateInv
    /\ [][TurnTaken /\ FirstTurn => player_act' = starting_name]_vars
    /\ [][TurnTaken /\ ~FirstTurn /\ card_play[player_act].value \notin {"SKI", "REV"}
            /\ (count = 0 \/ count % 2 = 1)
          => player_act' = Other(player_act)]_vars

\* the passive player ended its last turn with a numeric card or without a
\* play, and the turn of the other player that followed has been taken
C23_Witness ==
    /\ pc = "returned"
    /\ card_play[player_pas].value = "0"
    /\ card_play[player_act] # NoCard
    /\ starting_name = 2

\* the value-table entries and the visit counts a step changes
QChanged == {pr \in Pairs : q'[pr] # q[pr]}
VisitChanged == {pr \in Pairs : visit'[pr] # visit[pr]}

\* C24: a Q-learning update call with a recorded previous pair changes no
\* value-table entry but that of (prev_state, prev_action) and adds 1 to
\* the visit count of that pair alone; the first call changes neither
\* table; every call ends with the previous pair set to the current
\* (state, action); no step changes the reward table.
C24_QUpdateFrame ==
    /\ [][QUpdateCall
          => /\ QChanged \subseteq {<<prev_state, prev_action>>}
             /\ VisitChanged = (IF prev_state # NoState
                                THEN {<<prev_state, prev_action>>} ELSE {})
             /\ \A pr \in VisitChanged : visit'[pr] = visit[pr] + 1
             /\ prev_state' = state'
             /\ prev_action' = action']_vars
    /\ [][agent_R' = agent_R]_vars

\* the previous pair has been visited twice and its value has changed once,
\* while the agent has moved on to another pair
C24_Witness ==
    /\ algorithm = "q-learning"
    /\ apc = "play"
    /\ prev_state # NoState
    /\ \E pr \in Pairs :
          /\ pr # <<prev_state, prev_action>>
          /\ visit[pr] = 2
          /\ q[pr] > 0

\* the turn engine is constructed and no turn has been taken
Constructed == pc = "loop" /\ FirstTurn

\* C25: after the construction of the turn engine and before the first
\* turn the open card has a numeric value, not a SKIP, REVERSE, DRAW2 or
\* wild value, and each player holds exactly the dealt number of cards.
C25_StartUp ==
    Constructed
    => /\ card_open.value \in {"0", "1", "2", "3", "4", "5", "6", "7", "8", "9"}
       /\ card_open.value \notin {"SKI", "REV", "PL2", "COL", "PL4"}
       /\ \A p \in Players : HandLen(hand[p]) = HandSize

\* the first open card was not numeric and has been replaced
C25_Witness ==
    /\ Constructed
    /\ Total < built - 1
    /\ HandLen(hand[1]) = HandSize
    /\ HandLen(hand[2]) = HandSize

\* the card value a counter-play of the running chain needs
ChainType == IF penalty = 4 THEN "PL4" ELSE "PL2"

\* the cards of the chain's penalty type in hand h
ChainCards(h) == {c \in CardSet : h[c] > 0 /\ c.value = ChainType}

\* the player who played the last penalty card of the chain: the plays
\* alternate from the active player's first card
LastChainPlayer == IF (played[1] + played[2]) % 2 = 1 THEN player_act ELSE player_pas

C26_StateInv ==
    /\ pc \in {"chain_pas", "chain_act", "penalty"}
       => /\ count = 1 + (played[player_act] - 1) + played[player_pas]
          /\ played[player_act] >= 1
          /\ card_play[LastChainPlayer] = last_played
          /\ last_played.value = ChainType
    /\ pc = "chain_pas" => played[player_pas] = played[player_act] - 1
    /\ pc = "chain_act" => played[player_pas] = played[player_act]
    /\ pc = "penalty"
       => /\ played[player_pas] \in {played[player_act] - 1, played[player_act]}
          /\ (i = 0 => ChainCards(hand[Other(LastChainPlayer)]) = {})

\* a counter-play of player p: one more card played by p alone
CounterPlayBy(p) ==
    /\ played'[p] = played[p] + 1
    /\ played'[Other(p)] = played[Other(p)]
    /\ count' = count + 1

\* C26: in a penalty chain the counter-plays alternate, starting with the
\* passive player, and the counter is 1 plus the number of counter-plays;
\* when the penalty draws begin, the player who draws did not play the
\* last penalty card and holds no card of the chain's penalty type.
C26_ChainAlternates ==
    /\ []C26_StateInv
    /\ [][pc = "chain_pas" /\ played' # played => CounterPlayBy(player_pas)]_vars
    /\ [][pc = "chain_act" /\ played' # played => CounterPlayBy(player_act)]_vars
    /\ [][pc = "penalty" /\ pc' # "crashed"
          => /\ drew'[Other(LastChainPlayer)] = drew[Other(LastChainPlayer)] + 1
             /\ hand'[LastChainPlayer] = hand[LastChainPlayer]
             /\ drew'[LastChainPlayer] = drew[LastChainPlayer]]_vars

\* penalty draws begin after a chain with counter-plays by both players
C26_Witness ==
    /\ pc = "penalty"
    /\ i = 0
    /\ count = 3
    /\ played[player_act] = 2
    /\ played[player_pas] = 1

\* the players whose hand is empty
EmptyHanded == {p \in Players : HandLen(hand[p]) = 0}

\* player p neither draws nor plays in this step
Rests(p) ==
    /\ hand'[p] = hand[p]
    /\ card_play'[p] = card_play[p]
    /\ drew'[p] <= drew[p]
    /\ played'[p] <= played[p]

\* the hands have been dealt and the game loop runs or has ended
InGame == pc \in {"loop", "chain_pas", "chain_act", "penalty", "returned", "final", "done"}

\* C27: at every point of a game at most one hand is empty, and a player
\* whose hand is empty never draws or plays again: the winner is unique.
C27_AtMostOneEmptyHand ==
    /\ [](InGame => Cardinality(EmptyHanded) <= 1)
    /\ [](pc \in {"final", "done"} => EmptyHanded = {winner})
    /\ [][InGame => \A p \in EmptyHanded : Rests(p) /\ deck' = deck]_vars

\* a penalty chain with counter-plays by both sides ended with one hand empty
C27_Witness ==
    /\ pc = "final"
    /\ played[1] + played[2] = 0
    /\ count >= 3
    /\ Cardinality(EmptyHanded) = 1

\* the player whose turn the next loop iteration is
NextActive == ActiveOf(turn_no + 1)

\* a loop iteration takes the forced-draw branch and plays a card
ForcedPlay ==
    /\ pc = "loop"
    /\ pc' # "loop"
    /\ hand_play(hand[NextActive], card_open) = {}
    /\ played'[NextActive] = 1

\* C28: in the forced-draw branch a played card is the card just drawn: the
\* cards held before the draw are all still held, the played card is one the
\* deck could hand out, and the active hand has the size it started with.
C28_ForcedPlayIsDrawnCard ==
    [][ForcedPlay =>
        /\ hand'[NextActive] = hand[NextActive]
        /\ HandLen(hand'[NextActive]) = HandLen(hand[NextActive])
        /\ \E o \in draw_from_deck(deck) :
            /\ o.card = card_play'[NextActive]
            /\ deck' = discard(o.deck, o.card)
        /\ hand[NextActive][card_play'[NextActive]] = 0]_vars

\* the drawn card was played in a forced-draw turn by a hand of two or more
C28_Witness ==
    /\ pc \in {"returned", "chain_pas"}
    /\ forced
    /\ played[player_act] = 1
    /\ drew[player_act] = 1
    /\ HandLen(hand[player_act]) >= 2
    /\ hand[player_act][last_played] = 0

\* the game is over and the final agent update is about to run or has run
GameOver == pc \in {"final", "done"}

\* C29: the reward of the final agent update is 1 exactly when player 1 is
\* the winner, that is, when its hand is empty at the end of the game; when
\* player 2 won, player 1's hand is not empty, its held counts sum to at
\* least 1 and the reward is 0.
C29_FinalRewardIffAgentWon ==
    /\ GameOver => (final_reward(hand[1]) = 1 <=> winner = 1)
    /\ GameOver => (winner = 1 <=> HandLen(hand[1]) = 0)
    /\ GameOver /\ winner = 2 => sum(held_counts(hand[1])) >= 1 /\ final_reward(hand[1]) = 0
    /\ pc = "returned" /\ HandLen(hand[1]) > 0 => sum(held_counts(hand[1])) >= 1

\* player 2 won while player 1 held no numbered card
C29_Witness ==
    /\ pc = "final"
    /\ winner = 2
    /\ HandLen(hand[1]) > 0
    /\ \A c \in CardSet : hand[1][c] > 0 => c.value \notin NumericValues

\* player 1 won and the final update reads the reward 1
C29_WitnessWon ==
    /\ pc = "final"
    /\ winner = 1
    /\ final_reward(hand[1]) = 1
    /\ HandLen(hand[2]) > 0

====
